---- MODULE Spec2Model ----
(***************************************************************************)
(* Model of the pact verifier of pact-go (verifier.go).                    *)
(*                                                                         *)
(* The verifier is a builder (ServiceProvider, HonoursPactWith, PactUri,   *)
(* ProviderState) followed by verification calls (Verify, VerifyState).    *)
(* Execution is single-threaded and synchronous, so every call is one      *)
(* atomic action.  What a verification call does, in order, is recorded in *)
(* the trace of that call: each I/O step (canValidate, the pact read, the  *)
(* document validation, state callbacks, provider requests, response       *)
(* matches) appends one event.                                             *)
(*                                                                         *)
(* verifier.go delegates to two collaborators whose code is not part of    *)
(* the file: the io package (IsWebUri, the readers, PactFile.Validate) and *)
(* the consumerValidator (newConsumerValidator, ProviderService,           *)
(* CanValidate, Validate).  They are modelled from the specification and   *)
(* marked as such below.                                                   *)
(***************************************************************************)
EXTENDS Naturals, Sequences, FiniteSets, TLC

\* ------------------------------------------------------------------ bounds
\* Longest interaction list of a pact document.
MaxLen == 2

\* ------------------------------------------------------------------ values
nil == "nil"

errNoFilteredInteractionsFound == "errNoFilteredInteractionsFound"
errEmptyProvider == "errEmptyProvider"
errEmptyConsumer == "errEmptyConsumer"
errVerficationFailed == "errVerficationFailed"

\* Errors of the collaborators (specification, sections 4.1, 4.3 and 7).
errCanValidate == "errCanValidate"
SourceUnavailable == "SourceUnavailable"
MalformedDocument == "MalformedDocument"
InvalidDocument == "InvalidDocument"
\* The error consumerValidator.Validate may return next to its verdict.
errValidator == "errValidator"
\* What Validate returns as its error: none, or one of its own.
ValidatorErrors == {nil, errValidator}

\* Names the builder is called with ("" is the unset name).
Names == {"", "n"}
\* Provider base URLs handed to ServiceProvider.
Urls == {nil, "url"}
\* Pact locations handed to PactUri.
WebUris == {"http://broker/pact"}
FileUris == {"pact.json"}
\* Credentials handed to PactUri: a *PactUriConfig is the object it points to
\* (ptr), nil included; nil selects the default.
NilPactUriConfig == [ptr |-> nil, Username |-> "", Password |-> ""]
DefaultPactUriConfig == [ptr |-> "DefaultPactUriConfig", Username |-> "", Password |-> ""]
CustomPactUriConfig == [ptr |-> "custom", Username |-> "u", Password |-> "p"]
UriConfigs == {NilPactUriConfig, CustomPactUriConfig}

\* Descriptions and provider-state labels of the interactions of a document.
Descriptions == {"d1", "d2"}
States == {"", "X"}
\* Filters a verification call is made with ("" is no filter).
DescriptionFilters == {"", "d1"}
StateFilters == {"", "X"}
\* Labels ProviderState is called with.
Labels == {"", "X"}
\* A callback is known by what it returns.
Actions == {"ok", "fail"}
\* Configurations handed to NewPactFileVerifier: a *VerfierConfig is the
\* object it points to (ptr), nil included; nil selects the default.
NilVerifierConfig == [ptr |-> nil, Logger |-> nil]
DefaultVerifierConfig == [ptr |-> "DefaultVerifierConfig", Logger |-> "defaultLogger"]
CustomVerifierConfig == [ptr |-> "custom", Logger |-> "logger"]
\* What NewPactFileVerifier is called with: no callbacks and no
\* configuration, or a setup and a teardown callback and a configuration.
Constructions ==
  {[setup |-> nil, teardown |-> nil, config |-> NilVerifierConfig]}
  \cup
  {[setup |-> a, teardown |-> b, config |-> CustomVerifierConfig] :
      a \in Actions, b \in Actions}
\* What the provider does with one replayed request.
Responses == {"match", "mismatch", "error"}

EmptyMap == [l \in {} |-> nil]

\* ------------------------------------------------------------------ state
\* v          the pactFileVerfier under construction and in use
\* pactSource what the pact location holds: the outcome of reading it
\* last       the most recent call on v and what it did
\* fresh      a second verifier on a second copy of the pact location, given
\*            the same builder calls as v and no verification call
VARIABLES v, pactSource, last, fresh

vars == <<v, pactSource, last, fresh>>

\* Interactions carry their position in the document as identity (the code
\* holds them by pointer).
Interaction(k, d, s) == [id |-> k, Description |-> d, State |-> s]

InteractionLists ==
  UNION {[1..n -> Descriptions \X States] : n \in 0..MaxLen}

Document(l) == [k \in 1..Len(l) |-> Interaction(k, l[k][1], l[k][2])]

\* What reading the pact location can give: a read failure, a document that
\* does not parse, a document that fails its structural validation, or a
\* valid document.
Sources ==
  {[readErr |-> e, validateErr |-> nil, Interactions |-> <<>>] :
      e \in {SourceUnavailable, MalformedDocument}}
  \cup
  {[readErr |-> nil, validateErr |-> e, Interactions |-> Document(l)] :
      e \in {nil, InvalidDocument}, l \in InteractionLists}

\* ---------------------------------------------------------------- builder
\* make(map[string]*stateAction) with one more assignment
Put(m, k, x) == [l \in (DOMAIN m) \cup {k} |-> IF l = k THEN x ELSE m[l]]

\* newConsumerValidator: keeps the two callbacks of the verifier and the
\* logger; no request target yet
newConsumerValidator(setup, teardown, logger) ==
  [url |-> nil, setup |-> setup, teardown |-> teardown, logger |-> logger]

NewPactFileVerifier(setup, teardown, config) ==
  LET cfg == IF config.ptr = nil THEN DefaultVerifierConfig ELSE config
  IN  [stateActions |-> EmptyMap,
       provider |-> "",
       consumer |-> "",
       pactUri |-> "",
       pactUriConfig |-> NilPactUriConfig,
       validator |-> newConsumerValidator(setup, teardown, cfg.Logger),
       config |-> cfg]

\* consumerValidator.ProviderService: keeps the target of the requests
ProviderService(val, u) == [val EXCEPT !.url = u]

ServiceProvider(self, providerName, u) ==
  [self EXCEPT !.provider = providerName,
               !.validator = ProviderService(self.validator, u)]

\* ProviderState as it would be without the check of the label.
ProviderState_NoLabelCheck(self, state, setup, teardown) ==
  [self EXCEPT !.stateActions =
     Put(self.stateActions, state, [setup |-> setup, teardown |-> teardown])]

\* ProviderState as it would be if each registration made a new map.
ProviderState_NewMap(self, state, setup, teardown) ==
  IF state # ""
    THEN [self EXCEPT !.stateActions =
            Put(EmptyMap, state, [setup |-> setup, teardown |-> teardown])]
    ELSE self

ProviderState(self, state, setup, teardown) ==
  IF state # ""
    THEN [self EXCEPT !.stateActions =
            Put(self.stateActions, state, [setup |-> setup, teardown |-> teardown])]
    ELSE self

HonoursPactWith(self, consumerName) == [self EXCEPT !.consumer = consumerName]

\* PactUri as it would be if a nil config were stored as it is.
PactUri_KeepsNil(self, uri, config) ==
  [self EXCEPT !.pactUriConfig = config, !.pactUri = uri]

PactUri(self, uri, config) ==
  LET c == IF config.ptr = nil THEN DefaultPactUriConfig ELSE config
  IN  [self EXCEPT !.pactUriConfig = c, !.pactUri = uri]

\* ------------------------------------------------------------ collaborators
\* io.IsWebUri: a scheme-qualified network address
IsWebUri(uri) == uri \in WebUris

NewPactWebReader(uri, username, password) ==
  [kind |-> "web", uri |-> uri, Username |-> username, Password |-> password]

NewPactFileReader(uri) ==
  [kind |-> "file", uri |-> uri, Username |-> "", Password |-> ""]

\* PactReader.Read: one attempt on the location; the bytes are parsed into a
\* fresh PactFile
Read(r, src) ==
  [f |-> [Interactions |-> src.Interactions, validateErr |-> src.validateErr],
   err |-> src.readErr,
   trace |-> <<[ev |-> "read", id |-> 0, reader |-> r]>>]

\* PactFile.Validate: the structural validation of the document
ValidateFile(f) == [err |-> f.validateErr, trace |-> <<[ev |-> "validateFile", id |-> 0]>>]

\* consumerValidator.CanValidate: the request target exists
CanValidate(val) ==
  [err |-> IF val.url = nil THEN errCanValidate ELSE nil,
   trace |-> <<[ev |-> "canValidate", id |-> 0]>>]

Event(e, i) == [ev |-> e, id |-> i.id]

\* The request of an interaction is replayed when no setup callback failed
\* before it: neither the verifier's own nor the one registered for its
\* label.
Requested(val, i, s) ==
  /\ val.setup # "fail"
  /\ i.State \in DOMAIN s => s[i.State].setup # "fail"

\* One interaction: the verifier's setup, the setup of its label, request,
\* match, the teardown of its label, the verifier's teardown.  A failing
\* setup ends what it opened: after a failing verifier setup nothing else
\* happens, after a failing setup of the label only the verifier's teardown.
\* A transport error skips the match; a teardown follows whenever its setup
\* succeeded.
ValidateInteraction(val, i, s, beh) ==
  LET has == i.State \in DOMAIN s
      sa == s[i.State]
      before == IF val.setup # nil THEN <<Event("verifierSetup", i)>> ELSE <<>>
      after == IF val.teardown # nil THEN <<Event("verifierTeardown", i)>> ELSE <<>>
      replay == IF beh[i.id] = "error"
                  THEN <<Event("request", i)>>
                  ELSE <<Event("request", i), Event("match", i)>>
  IN  IF val.setup = "fail"
        THEN [trace |-> before, passed |-> FALSE]
        ELSE IF has /\ sa.setup = "fail"
          THEN [trace |-> before \o <<Event("setup", i)>> \o after,
                passed |-> FALSE]
          ELSE IF has
            THEN [trace |-> before \o <<Event("setup", i)>> \o replay
                              \o <<Event("teardown", i)>> \o after,
                  passed |-> /\ beh[i.id] = "match"
                             /\ sa.teardown = "ok"
                             /\ val.teardown # "fail"]
            ELSE [trace |-> before \o replay \o after,
                  passed |-> beh[i.id] = "match" /\ val.teardown # "fail"]

\* The loop of consumerValidator.Validate: every interaction in turn,
\* failures collected
RECURSIVE ValidateFrom(_, _, _, _, _)
ValidateFrom(k, l, val, s, beh) ==
  IF k > Len(l)
    THEN [trace |-> <<>>, verdicts |-> <<>>]
    ELSE LET one == ValidateInteraction(val, l[k], s, beh)
             rest == ValidateFrom(k + 1, l, val, s, beh)
         IN  [trace |-> one.trace \o rest.trace,
              verdicts |-> <<one.passed>> \o rest.verdicts]

\* consumerValidator.Validate returns (bool, error): the verdicts of the loop
\* and, when verr is not nil, an error of its own in place of a true result.
Validate(val, f, s, beh, verr) ==
  LET all == ValidateFrom(1, f.Interactions, val, s, beh)
  IN  [ok |-> verr = nil /\ \A k \in 1..Len(all.verdicts) : all.verdicts[k],
       err |-> verr,
       trace |-> all.trace,
       verdicts |-> all.verdicts]

\* ------------------------------------------------------------- verification
\* verifyInternalState as it would be if the validator were asked first.
verifyInternalState_ValidatorFirst(self) ==
  LET can == CanValidate(self.validator)
  IN  IF can.err # nil THEN can
      ELSE IF self.consumer = ""
        THEN [err |-> errEmptyConsumer, trace |-> can.trace]
        ELSE IF self.provider = ""
          THEN [err |-> errEmptyProvider, trace |-> can.trace]
          ELSE can

\* verifyInternalState as it would be without its call of CanValidate.
verifyInternalState_NoCanValidate(self) ==
  IF self.consumer = ""
    THEN [err |-> errEmptyConsumer, trace |-> <<>>]
    ELSE IF self.provider = ""
      THEN [err |-> errEmptyProvider, trace |-> <<>>]
      ELSE [err |-> nil, trace |-> <<>>]

\* verifyInternalState as it would be if the provider name were checked
\* first.
verifyInternalState_ProviderFirst(self) ==
  IF self.provider = ""
    THEN [err |-> errEmptyProvider, trace |-> <<>>]
    ELSE IF self.consumer = ""
      THEN [err |-> errEmptyConsumer, trace |-> <<>>]
      ELSE CanValidate(self.validator)

verifyInternalState(self) ==
  IF self.consumer = ""
    THEN [err |-> errEmptyConsumer, trace |-> <<>>]
    ELSE IF self.provider = ""
      THEN [err |-> errEmptyProvider, trace |-> <<>>]
      ELSE CanValidate(self.validator)

\* PactReaderOf as it would be if the credentials were not passed on.
PactReaderOf_NoCredentials(self) ==
  IF IsWebUri(self.pactUri)
    THEN NewPactWebReader(self.pactUri, "", "")
    ELSE NewPactFileReader(self.pactUri)

\* The reader getPactFile picks.  Reading Username through a nil
\* pactUriConfig is a nil dereference: no reader is made.
PactReaderOf(self) ==
  IF IsWebUri(self.pactUri)
    THEN IF self.pactUriConfig.ptr = nil
           THEN [kind |-> "panic", uri |-> self.pactUri, Username |-> "", Password |-> ""]
           ELSE NewPactWebReader(self.pactUri, self.pactUriConfig.Username,
                                 self.pactUriConfig.Password)
    ELSE NewPactFileReader(self.pactUri)

\* No PactFile: getPactFile was not reached or returned nil
NoFile == [Interactions |-> <<>>, validateErr |-> nil]

\* getPactFile as it would be if the outcome of f.Validate were dropped.
getPactFile_IgnoresValidate(self, src) ==
  LET r == PactReaderOf(self)
      rd == Read(r, src)
      vd == ValidateFile(rd.f)
  IN  IF r.kind = "panic"
        THEN [f |-> NoFile, err |-> "panic", trace |-> <<>>]
        ELSE IF rd.err # nil
          THEN [f |-> NoFile, err |-> rd.err, trace |-> rd.trace]
          ELSE [f |-> rd.f, err |-> nil, trace |-> rd.trace \o vd.trace]

\* getPactFile as it would be if every failure of Read were reported as
\* SourceUnavailable.
getPactFile_WrapsReadError(self, src) ==
  LET r == PactReaderOf(self)
      rd == Read(r, src)
      vd == ValidateFile(rd.f)
  IN  IF r.kind = "panic"
        THEN [f |-> NoFile, err |-> "panic", trace |-> <<>>]
        ELSE IF rd.err # nil
          THEN [f |-> NoFile, err |-> SourceUnavailable, trace |-> rd.trace]
          ELSE IF vd.err # nil
            THEN [f |-> NoFile, err |-> vd.err, trace |-> rd.trace \o vd.trace]
            ELSE [f |-> rd.f, err |-> nil, trace |-> rd.trace \o vd.trace]

getPactFile(self, src) ==
  LET r == PactReaderOf(self)
      rd == Read(r, src)
      vd == ValidateFile(rd.f)
  IN  IF r.kind = "panic"
        THEN [f |-> NoFile, err |-> "panic", trace |-> <<>>]
        ELSE IF rd.err # nil
          THEN [f |-> NoFile, err |-> rd.err, trace |-> rd.trace]
          ELSE IF vd.err # nil
            THEN [f |-> NoFile, err |-> vd.err, trace |-> rd.trace \o vd.trace]
            ELSE [f |-> rd.f, err |-> nil, trace |-> rd.trace \o vd.trace]

\* FilterByDescription as it would be if the loop stopped at the first match.
FilterByDescription_FirstOnly(interactions, description) ==
  IF description # ""
    THEN LET all == SelectSeq(interactions, LAMBDA val : val.Description = description)
         IN  IF all = <<>> THEN all ELSE <<Head(all)>>
    ELSE interactions

\* filter by description
FilterByDescription(interactions, description) ==
  IF description # ""
    THEN SelectSeq(interactions, LAMBDA val : val.Description = description)
    ELSE interactions

\* FilterByState as it would be if interactions without a provider state
\* were kept whatever the filter.
FilterByState_KeepsStateless(interactions, state) ==
  IF state # ""
    THEN SelectSeq(interactions, LAMBDA val : val.State = state \/ val.State = "")
    ELSE interactions

\* filter by state
FilterByState(interactions, state) ==
  IF state # ""
    THEN SelectSeq(interactions, LAMBDA val : val.State = state)
    ELSE interactions

\* NoFilteredInteractions as it would be if the error needed both filters.
NoFilteredInteractions_BothFilters(interactions, description, state) ==
  (description # "" /\ state # "") /\ Len(interactions) = 0

NoFilteredInteractions(interactions, description, state) ==
  (description # "" \/ state # "") /\ Len(interactions) = 0

\* ValidateOutcome as it would be if a failed validation were not reported.
ValidateOutcome_DropsFailure(ok, err) ==
  IF err # nil THEN err ELSE nil

\* What VerifyState returns for the outcome of validator.Validate
ValidateOutcome(ok, err) ==
  IF err # nil THEN err
  ELSE IF ~ok THEN errVerficationFailed
  ELSE nil

\* ValidateCall as it would be if the state actions were not passed on.
ValidateCall_NoStateActions(self, f, beh, verr) ==
  Validate(self.validator, f, EmptyMap, beh, verr)

\* validator.Validate(f, v.stateActions)
ValidateCall(self, f, beh, verr) ==
  Validate(self.validator, f, self.stateActions, beh, verr)

\* A call that ended before the validator was handed anything; loaded and
\* document tell what became of the PactFile, if one was loaded
Ended(err, trace, loaded, document) ==
  [err |-> err, trace |-> trace, handed |-> FALSE, Interactions |-> <<>>,
   verdicts |-> <<>>, loaded |-> loaded, document |-> document]

\* VerifyState up to its call of the validator: the precondition check, the
\* fetch and the two filters.  f is the PactFile getPactFile returned, as the
\* assignments f.Interactions = filteredInteractions leave it; loaded tells
\* whether there is one.
Selecting(self, src, description, state) ==
  LET pre == verifyInternalState(self)
      got == getPactFile(self, src)
      byDesc == FilterByDescription(got.f.Interactions, description)
      byState == FilterByState(byDesc, state)
      f == [got.f EXCEPT !.Interactions = byState]
  IN  IF pre.err # nil
        THEN [err |-> pre.err, trace |-> pre.trace, f |-> NoFile, loaded |-> FALSE]
        ELSE IF got.err # nil
          THEN [err |-> got.err, trace |-> pre.trace \o got.trace,
                f |-> NoFile, loaded |-> FALSE]
          ELSE IF NoFilteredInteractions(f.Interactions, description, state)
            THEN [err |-> errNoFilteredInteractionsFound,
                  trace |-> pre.trace \o got.trace, f |-> f, loaded |-> TRUE]
            ELSE [err |-> nil, trace |-> pre.trace \o got.trace, f |-> f,
                  loaded |-> TRUE]

\* VerifyState, with the provider's answers beh (interaction id -> response)
\* and the error verr of the validator
VerifyState(self, src, beh, verr, description, state) ==
  LET sel == Selecting(self, src, description, state)
      res == ValidateCall(self, sel.f, beh, verr)
  IN  IF sel.err # nil
        THEN Ended(sel.err, sel.trace, sel.loaded, sel.f.Interactions)
        ELSE [err |-> ValidateOutcome(res.ok, res.err),
              trace |-> sel.trace \o res.trace,
              handed |-> TRUE,
              Interactions |-> sel.f.Interactions,
              verdicts |-> res.verdicts,
              loaded |-> sel.loaded,
              document |-> sel.f.Interactions]

\* Verify as it would be if it passed a state filter.
Verify_Filtered(self, src, beh, verr) ==
  VerifyState(self, src, beh, verr, "", "X")

Verify(self, src, beh, verr) == VerifyState(self, src, beh, verr, "", "")

\* The interactions whose requests the provider has to answer in a call
Replayed(self, src, description, state) ==
  LET l == Selecting(self, src, description, state).f.Interactions
  IN  {l[k].id : k \in {j \in 1..Len(l) :
                          Requested(self.validator, l[j], self.stateActions)}}

\* The errors Validate may return in a call: it is only called when the
\* selection went through
ValidatorOutcomes(self, src, description, state) ==
  IF Selecting(self, src, description, state).err = nil
    THEN ValidatorErrors
    ELSE {nil}

\* ------------------------------------------------------------------ actions
NoCall == [op |-> "none"]

Init ==
  /\ \E c \in Constructions :
       v = NewPactFileVerifier(c.setup, c.teardown, c.config)
  /\ pactSource \in Sources
  /\ last = NoCall
  /\ fresh = [v |-> v, pactSource |-> pactSource]

ServiceProviderCall ==
  \E providerName \in Names, u \in Urls :
    /\ v' = ServiceProvider(v, providerName, u)
    /\ fresh' = [fresh EXCEPT !.v = ServiceProvider(fresh.v, providerName, u)]
    /\ last' = NoCall
    /\ UNCHANGED pactSource

HonoursPactWithCall ==
  \E consumerName \in Names :
    /\ v' = HonoursPactWith(v, consumerName)
    /\ fresh' = [fresh EXCEPT !.v = HonoursPactWith(fresh.v, consumerName)]
    /\ last' = NoCall
    /\ UNCHANGED pactSource

PactUriCall ==
  \E uri \in WebUris \cup FileUris, config \in UriConfigs :
    /\ v' = PactUri(v, uri, config)
    /\ fresh' = [fresh EXCEPT !.v = PactUri(fresh.v, uri, config)]
    /\ last' = NoCall
    /\ UNCHANGED pactSource

ProviderStateCall ==
  \E state \in Labels, setup \in Actions, teardown \in Actions :
    /\ v' = ProviderState(v, state, setup, teardown)
    /\ fresh' = [fresh EXCEPT !.v = ProviderState(fresh.v, state, setup, teardown)]
    /\ last' = [op |-> "ProviderState", state |-> state, setup |-> setup,
                teardown |-> teardown, before |-> v.stateActions]
    /\ UNCHANGED pactSource

\* VerifyStateCall as it would be if the PactFile were kept between calls,
\* so that the filters of one call narrowed what the next one reads.
VerifyStateCall_KeepsFile ==
  \E description \in DescriptionFilters, state \in StateFilters :
    \E beh \in [Replayed(v, pactSource, description, state) -> Responses],
       verr \in ValidatorOutcomes(v, pactSource, description, state) :
      LET run == VerifyState(v, pactSource, beh, verr, description, state)
      IN  /\ last' = [op |-> "VerifyState", description |-> description,
                      state |-> state, beh |-> beh, verr |-> verr, run |-> run]
          /\ pactSource' = IF run.loaded
                             THEN [pactSource EXCEPT !.Interactions = run.document]
                             ELSE pactSource
          /\ UNCHANGED <<v, fresh>>

\* VerifyStateCall as it would be if getPactFile stored the default
\* credentials in the verifier when none were set.
VerifyStateCall_DefaultsConfig ==
  \E description \in DescriptionFilters, state \in StateFilters :
    \E beh \in [Replayed(v, pactSource, description, state) -> Responses],
       verr \in ValidatorOutcomes(v, pactSource, description, state) :
      /\ last' = [op |-> "VerifyState", description |-> description,
                  state |-> state, beh |-> beh, verr |-> verr,
                  run |-> VerifyState(v, pactSource, beh, verr, description, state)]
      /\ v' = [v EXCEPT !.pactUriConfig =
                 IF @.ptr = nil THEN DefaultPactUriConfig ELSE @]
      /\ UNCHANGED <<pactSource, fresh>>

VerifyStateCall ==
  \E description \in DescriptionFilters, state \in StateFilters :
    \E beh \in [Replayed(v, pactSource, description, state) -> Responses],
       verr \in ValidatorOutcomes(v, pactSource, description, state) :
      /\ last' = [op |-> "VerifyState", description |-> description,
                  state |-> state, beh |-> beh, verr |-> verr,
                  run |-> VerifyState(v, pactSource, beh, verr, description, state)]
      /\ UNCHANGED <<v, pactSource, fresh>>

VerifyCall ==
  \E beh \in [Replayed(v, pactSource, "", "") -> Responses],
     verr \in ValidatorOutcomes(v, pactSource, "", "") :
    /\ last' = [op |-> "Verify", description |-> "", state |-> "", beh |-> beh, verr |-> verr,
                run |-> Verify(v, pactSource, beh, verr)]
    /\ UNCHANGED <<v, pactSource, fresh>>

Next ==
  \/ ServiceProviderCall
  \/ HonoursPactWithCall
  \/ PactUriCall
  \/ ProviderStateCall
  \/ VerifyStateCall
  \/ VerifyCall

Spec == Init /\ [][Next]_vars

\* ------------------------------------------------- configuration in any order
\* One call of each kind, ProviderState once per label, issued in any order
\* and followed by one verification call.
OrderLabels == {"X", "Y"}

Call(kind, x, y, z) == [kind |-> kind, x |-> x, y |-> y, z |-> z]

OrderCalls ==
  {Call("ServiceProvider", n, u, "") : n \in Names, u \in Urls}
  \cup {Call("HonoursPactWith", n, "", "") : n \in Names}
  \cup {Call("PactUri", uri, config.ptr, "") :
          uri \in WebUris \cup FileUris, config \in UriConfigs}
  \cup {Call("ProviderState", l, setup, teardown) :
          l \in OrderLabels, setup \in Actions, teardown \in Actions}

\* Calls of one slot overwrite each other; calls of different slots do not.
Slot(c) == IF c.kind = "ProviderState" THEN <<c.kind, c.x>> ELSE <<c.kind, "">>

Apply(self, c) ==
  CASE c.kind = "ServiceProvider" -> ServiceProvider(self, c.x, c.y)
    [] c.kind = "HonoursPactWith" -> HonoursPactWith(self, c.x)
    [] c.kind = "PactUri" ->
         PactUri(self, c.x, CHOOSE config \in UriConfigs : config.ptr = c.y)
    [] c.kind = "ProviderState" -> ProviderState(self, c.x, c.y, c.z)

\* Short documents are enough for the verification call that follows.
OrderSources ==
  {src \in Sources : src.validateErr = nil /\ Len(src.Interactions) <= 1}

OrderInit ==
  /\ \E c \in Constructions :
       v = NewPactFileVerifier(c.setup, c.teardown, c.config)
  /\ pactSource \in OrderSources
  /\ last = [op |-> "configuring", issued |-> {}]
  /\ fresh = [v |-> v, pactSource |-> pactSource]

OrderCall ==
  /\ last.op = "configuring"
  /\ \E c \in OrderCalls :
       /\ \A d \in last.issued : Slot(d) # Slot(c)
       /\ v' = Apply(v, c)
       /\ fresh' = [fresh EXCEPT !.v = Apply(fresh.v, c)]
       /\ last' = [last EXCEPT !.issued = @ \cup {c}]
       /\ UNCHANGED pactSource

OrderVerifyState ==
  /\ last.op = "configuring"
  /\ \E description \in DescriptionFilters, state \in StateFilters :
       \E beh \in [Replayed(v, pactSource, description, state) -> Responses],
          verr \in ValidatorOutcomes(v, pactSource, description, state) :
         /\ last' = [op |-> "VerifyState", issued |-> last.issued,
                     description |-> description, state |-> state, beh |-> beh, verr |-> verr,
                     run |-> VerifyState(v, pactSource, beh, verr, description, state)]
         /\ UNCHANGED <<v, pactSource, fresh>>

OrderNext ==
  \/ OrderCall
  \/ OrderVerifyState

SpecOrder == OrderInit /\ [][OrderNext]_vars

\* ----------------------------------------------------------- response matcher
\* ResponseMatcher.match (specification 4.5) on responses with a status, a
\* header map and a key/value body.  Header names are taken in one case.
Statuses == {200, 404}
HeaderNames == <<"h1", "h2">>
HeaderValues == {"a", "b"}
BodyKeys == <<"k1", "k2">>
BodyValues == {"x", "y"}

Elements(seq) == {seq[k] : k \in 1..Len(seq)}

PartialMaps(keys, values) == UNION {[d -> values] : d \in SUBSET keys}

HttpResponses ==
  [status : Statuses,
   headers : PartialMaps(Elements(HeaderNames), HeaderValues),
   body : PartialMaps(Elements(BodyKeys), BodyValues)]

Mismatch(path, key, expected, actual) ==
  [path |-> path, key |-> key, expected |-> expected, actual |-> actual]

MatchStatus(expected, actual) ==
  IF expected = actual
    THEN <<>>
    ELSE <<Mismatch("status", "", expected, actual)>>

\* MatchMap as it would be if the two maps had to have the same keys.
RECURSIVE MatchMap_NoExtraKeys(_, _, _, _, _)
MatchMap_NoExtraKeys(path, keys, k, expected, actual) ==
  IF k > Len(keys) THEN <<>>
  ELSE LET key == keys[k]
           rest == MatchMap_NoExtraKeys(path, keys, k + 1, expected, actual)
       IN  IF key \notin DOMAIN expected
             THEN IF key \in DOMAIN actual
                    THEN <<Mismatch(path, key, "absent", actual[key])>> \o rest
                    ELSE rest
             ELSE IF key \notin DOMAIN actual
               THEN <<Mismatch(path, key, expected[key], "absent")>> \o rest
               ELSE IF actual[key] # expected[key]
                 THEN <<Mismatch(path, key, expected[key], actual[key])>> \o rest
                 ELSE rest

\* The keys of expected, one after the other: a key that actual lacks or
\* holds with another value is a mismatch; keys of actual alone are skipped.
RECURSIVE MatchMap(_, _, _, _, _)
MatchMap(path, keys, k, expected, actual) ==
  IF k > Len(keys) THEN <<>>
  ELSE LET key == keys[k]
           rest == MatchMap(path, keys, k + 1, expected, actual)
       IN  IF key \notin DOMAIN expected
             THEN rest
             ELSE IF key \notin DOMAIN actual
               THEN <<Mismatch(path, key, expected[key], "absent")>> \o rest
               ELSE IF actual[key] # expected[key]
                 THEN <<Mismatch(path, key, expected[key], actual[key])>> \o rest
                 ELSE rest

\* Every mismatch is recorded, not only the first.
Match(expected, actual) ==
  MatchStatus(expected.status, actual.status)
  \o MatchMap("headers", HeaderNames, 1, expected.headers, actual.headers)
  \o MatchMap("body", BodyKeys, 1, expected.body, actual.body)

MatchInit ==
  /\ v = NewPactFileVerifier(nil, nil, NilVerifierConfig)
  /\ pactSource = [readErr |-> nil, validateErr |-> nil, Interactions |-> <<>>]
  /\ fresh = [v |-> v, pactSource |-> pactSource]
  /\ \E expected \in HttpResponses, actual \in HttpResponses :
       last = [op |-> "toMatch", expected |-> expected, actual |-> actual]

MatchCall ==
  /\ last.op = "toMatch"
  /\ last' = [op |-> "matched", expected |-> last.expected, actual |-> last.actual,
              mismatches |-> Match(last.expected, last.actual)]
  /\ UNCHANGED <<v, pactSource, fresh>>

MatchNext == MatchCall

SpecMatch == MatchInit /\ [][MatchNext]_vars

\* ------------------------------------------------ registrations of actions
\* Any sequence of calls on the verifier in which ProviderState registers
\* actions for two labels and for the empty one, on an empty pact document.
RegisterLabels == {"", "X", "Y"}

RegisterInit ==
  /\ \E c \in Constructions :
       v = NewPactFileVerifier(c.setup, c.teardown, c.config)
  /\ pactSource = [readErr |-> nil, validateErr |-> nil, Interactions |-> <<>>]
  /\ last = NoCall
  /\ fresh = [v |-> v, pactSource |-> pactSource]

RegisterCall ==
  \E state \in RegisterLabels, setup \in Actions, teardown \in Actions :
    /\ v' = ProviderState(v, state, setup, teardown)
    /\ fresh' = [fresh EXCEPT !.v = ProviderState(fresh.v, state, setup, teardown)]
    /\ last' = [op |-> "ProviderState", state |-> state, setup |-> setup,
                teardown |-> teardown, before |-> v.stateActions]
    /\ UNCHANGED pactSource

RegisterNext ==
  \/ RegisterCall
  \/ ServiceProviderCall
  \/ HonoursPactWithCall
  \/ PactUriCall
  \/ VerifyStateCall
  \/ VerifyCall

SpecRegister == RegisterInit /\ [][RegisterNext]_vars

\* ------------------------------------------------------------------- claims
\* The last call was a verification call; what it did is last.run.
Ran == last.op \in {"VerifyState", "Verify"}

NamesSet == v.consumer # "" /\ v.provider # ""
Usable == NamesSet /\ v.validator.url # nil
Fetched == Usable /\ pactSource.readErr = nil /\ pactSource.validateErr = nil

\* An interaction passes the two filters.
Passes(i, description, state) ==
  /\ description # "" => i.Description = description
  /\ state # "" => i.State = state

\* The positions of the document that pass the filters of the last call.
Passing ==
  {k \in 1..Len(pactSource.Interactions) :
     Passes(pactSource.Interactions[k], last.description, last.state)}

\* Events of the per-interaction loop.
LoopEvents ==
  {"verifierSetup", "setup", "request", "match", "teardown", "verifierTeardown"}

\* The callbacks of the verifier itself, handed to NewPactFileVerifier.
VerifierEvents == {"verifierSetup", "verifierTeardown"}

\* The kinds of the events of the interaction id, in the order of the trace.
RECURSIVE EventsOf(_, _)
EventsOf(trace, id) ==
  IF trace = <<>> THEN <<>>
  ELSE IF Head(trace).id = id
    THEN <<Head(trace).ev>> \o EventsOf(Tail(trace), id)
    ELSE EventsOf(Tail(trace), id)

\* The interactions of the loop events, in the order of the trace, a run of
\* events of one interaction counted once.
RECURSIVE Attempts(_, _)
Attempts(trace, prev) ==
  IF trace = <<>> THEN <<>>
  ELSE IF Head(trace).ev \notin LoopEvents \/ Head(trace).id = prev
    THEN Attempts(Tail(trace), prev)
    ELSE <<Head(trace).id>> \o Attempts(Tail(trace), Head(trace).id)

Count(trace, e) == Cardinality({k \in 1..Len(trace) : trace[k].ev = e})

\* C1: the interactions handed to the validator are exactly the interactions
\* of the document that pass both filters, each once, in document order.
C1_SelectionExact ==
  (Ran /\ last.run.handed) =>
    LET D == pactSource.Interactions
        L == last.run.Interactions
    IN  /\ \A k \in 1..Len(L) : L[k].id \in Passing /\ L[k] = D[L[k].id]
        /\ \A j \in Passing : \E k \in 1..Len(L) : L[k].id = j
        /\ \A j, k \in 1..Len(L) : j < k => L[j].id < L[k].id

\* A call with both filters on a two-interaction document, of which one
\* interaction passes the description filter only and the other passes both.
C1_Witness ==
  /\ Ran /\ last.run.handed
  /\ last.description # "" /\ last.state # ""
  /\ Len(pactSource.Interactions) = 2
  /\ Len(last.run.Interactions) = 1
  /\ \E k \in 1..2 : /\ pactSource.Interactions[k].Description = last.description
                     /\ pactSource.Interactions[k].State # last.state

\* C2: with a filter given and nothing passing it, the call fails with
\* errNoFilteredInteractionsFound; with no filter given the whole list is
\* handed on, empty or not, and that error never occurs.
C2_NoMatchingInteractions ==
  (Ran /\ Fetched) =>
    /\ ((last.description # "" \/ last.state # "") /\ Passing = {}) =>
          (last.run.err = errNoFilteredInteractionsFound /\ ~last.run.handed)
    /\ (last.description = "" /\ last.state = "") =>
          /\ last.run.handed
          /\ last.run.Interactions = pactSource.Interactions
          /\ last.run.err # errNoFilteredInteractionsFound

\* A call with exactly one filter that nothing passes.
C2_Witness ==
  /\ Ran /\ Fetched
  /\ last.description = "" /\ last.state # ""
  /\ Len(pactSource.Interactions) > 0
  /\ Passing = {}
  /\ last.run.err = errNoFilteredInteractionsFound

\* An unfiltered call on an empty document goes through.
C2_WitnessEmpty ==
  /\ Ran /\ Fetched
  /\ last.description = "" /\ last.state = ""
  /\ pactSource.Interactions = <<>>
  /\ last.run.handed /\ last.run.err = nil

\* C3: with the provider or the consumer name unset, a verification call
\* fails with errEmptyProvider or errEmptyConsumer and does nothing else.
C3_EmptyNamesFailFast ==
  (Ran /\ ~NamesSet) =>
    /\ last.run.err \in {errEmptyProvider, errEmptyConsumer}
    /\ last.run.trace = <<>>
    /\ ~last.run.handed

\* A call with the consumer set, the provider name unset and a request target.
C3_Witness ==
  /\ Ran
  /\ v.consumer # "" /\ v.provider = "" /\ v.validator.url # nil
  /\ last.run.err = errEmptyProvider

\* C4: when the fetch fails (read, parse or structural validation) or the
\* filters leave nothing, the call ends with that error and the trace holds
\* no event of the per-interaction loop.
C4_AbortBeforeInteractions ==
  (Ran /\ Usable) =>
    LET noLoop == /\ ~last.run.handed
                  /\ \A k \in 1..Len(last.run.trace) :
                       last.run.trace[k].ev \notin LoopEvents
    IN  /\ pactSource.readErr # nil =>
              (last.run.err = pactSource.readErr /\ noLoop)
        /\ (pactSource.readErr = nil /\ pactSource.validateErr # nil) =>
              (last.run.err = pactSource.validateErr /\ noLoop)
        /\ (Fetched /\ (last.description # "" \/ last.state # "") /\ Passing = {}) =>
              (last.run.err = errNoFilteredInteractionsFound /\ noLoop)

\* A call on a document with interactions that fails its validation.
C4_Witness ==
  /\ Ran /\ Usable
  /\ pactSource.readErr = nil
  /\ pactSource.validateErr = InvalidDocument
  /\ Len(pactSource.Interactions) > 0
  /\ last.description = "" /\ last.state = ""
  /\ last.run.err = InvalidDocument

\* C5: a call that reaches the validator returns nil exactly when no verdict
\* of the loop failed, and errVerficationFailed otherwise.
C5_GenericFailure ==
  (Ran /\ last.run.handed) =>
    LET failing == {k \in 1..Len(last.run.verdicts) : ~last.run.verdicts[k]}
    IN  /\ last.run.err = nil <=> failing = {}
        /\ last.run.err \in {nil, errVerficationFailed}

\* A call with two interactions of which exactly one fails.
C5_Witness ==
  /\ Ran /\ last.run.handed
  /\ Len(last.run.verdicts) = 2
  /\ last.run.verdicts[1] /\ ~last.run.verdicts[2]
  /\ last.run.err = errVerficationFailed

\* A call in which every verdict of the loop passed and Validate returned an
\* error of its own: the call returned that error.
C5_ValidatorError ==
  /\ Ran /\ last.run.handed
  /\ Len(last.run.verdicts) > 0
  /\ \A k \in 1..Len(last.run.verdicts) : last.run.verdicts[k]
  /\ last.verr = errValidator
  /\ last.run.err = errValidator

\* C6: for a selected interaction whose label has a registered action, a
\* failing setup is the only event of that action; otherwise setup comes
\* first, then the request, then the match if there was a response, then
\* teardown, once.  The callbacks of the verifier itself lie around these
\* events; when the verifier's setup fails, the interaction ends before the
\* registered action is reached.
C6_SetupTeardownOrder ==
  (Ran /\ last.run.handed) =>
    \A k \in 1..Len(last.run.Interactions) :
      LET i == last.run.Interactions[k]
          evs == SelectSeq(EventsOf(last.run.trace, i.id),
                           LAMBDA e : e \notin VerifierEvents)
      IN  i.State \in DOMAIN v.stateActions =>
            IF v.validator.setup = "fail"
              THEN evs = <<>>
              ELSE IF v.stateActions[i.State].setup = "fail"
                THEN evs = <<"setup">>
                ELSE IF last.beh[i.id] = "error"
                  THEN evs = <<"setup", "request", "teardown">>
                  ELSE evs = <<"setup", "request", "match", "teardown">>

\* A call where setup succeeded, the response did not match and teardown ran.
C6_Witness ==
  /\ Ran /\ last.run.handed
  /\ \E k \in 1..Len(last.run.Interactions) :
       LET i == last.run.Interactions[k]
       IN  /\ i.State \in DOMAIN v.stateActions
           /\ v.stateActions[i.State].setup = "ok"
           /\ last.beh[i.id] = "mismatch"
           /\ EventsOf(last.run.trace, i.id) = <<"setup", "request", "match", "teardown">>

\* A call where setup failed: no request, no teardown.
C6_WitnessSetupFails ==
  /\ Ran /\ last.run.handed
  /\ \E k \in 1..Len(last.run.Interactions) :
       LET i == last.run.Interactions[k]
       IN  /\ i.State \in DOMAIN v.stateActions
           /\ v.stateActions[i.State].setup = "fail"
           /\ EventsOf(last.run.trace, i.id) = <<"setup">>

\* A call of a verifier built with callbacks of its own: they run around the
\* registered action, the request and the match.
C6_WitnessVerifierCallbacks ==
  /\ Ran /\ last.run.handed
  /\ \E k \in 1..Len(last.run.Interactions) :
       LET i == last.run.Interactions[k]
       IN  /\ i.State \in DOMAIN v.stateActions
           /\ EventsOf(last.run.trace, i.id) =
                <<"verifierSetup", "setup", "request", "match", "teardown",
                  "verifierTeardown">>

\* C7: once the loop starts, the interactions attempted are the interactions
\* of the document that pass the filters, each once, one at a time, in
\* document order, whatever the verdicts of the earlier ones.
C7_AllAttemptedInOrder ==
  (Ran /\ last.run.handed) =>
    LET att == Attempts(last.run.trace, 0)
    IN  /\ Len(att) = Cardinality(Passing)
        /\ {att[k] : k \in 1..Len(att)} = Passing
        /\ \A j, k \in 1..Len(att) : j < k => att[j] < att[k]
        /\ Len(last.run.verdicts) = Len(att)

\* A call where the first of two interactions failed and the second was
\* attempted all the same.
C7_Witness ==
  /\ Ran /\ last.run.handed
  /\ Len(last.run.verdicts) = 2
  /\ ~last.run.verdicts[1]
  /\ Attempts(last.run.trace, 0) = <<1, 2>>

\* C8: with both names set, CanValidate is the first event of the call and
\* occurs once; when it fails the call ends with its error and nothing else
\* happens.
C8_CanValidateOnceFirst ==
  (Ran /\ NamesSet) =>
    /\ Len(last.run.trace) >= 1
    /\ last.run.trace[1].ev = "canValidate"
    /\ Count(last.run.trace, "canValidate") = 1
    /\ v.validator.url = nil =>
         /\ last.run.err = errCanValidate
         /\ Len(last.run.trace) = 1
         /\ ~last.run.handed

\* A call that went through two interactions after CanValidate.
C8_Witness ==
  /\ Ran /\ NamesSet
  /\ last.run.handed
  /\ Len(last.run.Interactions) = 2
  /\ Count(last.run.trace, "canValidate") = 1
  /\ Count(last.run.trace, "request") = 2

\* A call that CanValidate stopped.
C8_WitnessFails ==
  /\ Ran /\ NamesSet
  /\ v.validator.url = nil
  /\ last.run.err = errCanValidate

\* C9: Verify() does what VerifyState("", "") does: the same steps, the same
\* interactions handed on (the whole document), the same result.
C9_VerifyIsUnfiltered ==
  last.op = "Verify" =>
    /\ last.run = VerifyState(v, pactSource, last.beh, last.verr, "", "")
    /\ Fetched => (last.run.handed /\ last.run.Interactions = pactSource.Interactions)

\* A Verify() on a document with a stateless interaction, which a state
\* filter would have dropped.
C9_Witness ==
  /\ last.op = "Verify"
  /\ last.run.handed
  /\ \E k \in 1..Len(last.run.Interactions) : last.run.Interactions[k].State = ""
  /\ \E k \in 1..Len(last.run.Interactions) : last.run.Interactions[k].State # ""

\* What the map is after ProviderState(c.state, c.setup, c.teardown) on map m.
Registered(m, c) ==
  IF c.state = ""
    THEN m
    ELSE [l \in (DOMAIN m) \cup {c.state} |->
            IF l = c.state THEN [setup |-> c.setup, teardown |-> c.teardown]
            ELSE m[l]]

\* C10: the state-action map never has an entry for the empty label; a
\* ProviderState call with the empty label changes nothing, one with another
\* label sets that label's entry to the pair given and leaves the others; no
\* other call changes the map.
C10_LastRegistrationWins ==
  [][/\ "" \notin DOMAIN v'.stateActions
     /\ v'.stateActions =
          IF last'.op = "ProviderState"
            THEN Registered(v.stateActions, last')
            ELSE v.stateActions]_vars

\* A second registration of a label with another pair has replaced the first
\* and has left the entry of the other label, a different pair, as it was.
C10_Witness ==
  /\ last.op = "ProviderState"
  /\ last.state # ""
  /\ last.state \in DOMAIN last.before
  /\ last.before[last.state] # [setup |-> last.setup, teardown |-> last.teardown]
  /\ v.stateActions[last.state] = [setup |-> last.setup, teardown |-> last.teardown]
  /\ \E l \in DOMAIN last.before :
       /\ l # last.state
       /\ last.before[l] # [setup |-> last.setup, teardown |-> last.teardown]
       /\ v.stateActions[l] = last.before[l]

\* A registration with the empty label on a map with an entry left it alone.
C10_WitnessEmptyLabel ==
  /\ last.op = "ProviderState"
  /\ last.state = ""
  /\ last.before # EmptyMap
  /\ v.stateActions = last.before

\* C11: selection leaves the loaded document alone: after the call, the
\* interaction list of the PactFile that was loaded is the list it was
\* loaded with.
C11_DocumentUnchanged ==
  (Ran /\ last.run.loaded) => last.run.document = pactSource.Interactions

\* A call with a description filter on a document of which it drops one
\* interaction: the loaded document's list is the filtered one.
C11_DocumentOverwritten ==
  /\ Ran /\ last.run.loaded
  /\ last.description # ""
  /\ Len(pactSource.Interactions) = 2
  /\ Len(last.run.document) = 1
  /\ last.run.document = last.run.Interactions

\* C12: what a verification call does and returns is what the same call does
\* and returns on a verifier that was configured by the same builder calls
\* and has made no verification call before, the pact source and the
\* provider's answers being the same; first of all it selects the same
\* interactions.
C12_ReuseAcrossRuns ==
  Ran =>
    /\ DOMAIN last.beh =
         Replayed(fresh.v, fresh.pactSource, last.description, last.state)
    /\ last.run = VerifyState(fresh.v, fresh.pactSource, last.beh, last.verr,
                              last.description, last.state)

\* An unfiltered call that handed on two interactions, of which a state
\* filter drops one: a filtered call before it would have narrowed it had it
\* left anything behind.
C12_Witness ==
  /\ last.op = "Verify"
  /\ last.run.handed
  /\ Len(last.run.Interactions) = 2
  /\ \E k \in 1..2 : last.run.Interactions[k].State # "X"
  /\ \E k \in 1..2 : last.run.Interactions[k].State = "X"

\* C13: a verification call leaves the provider name, the consumer name, the
\* pact URI, its credentials and the state-action map as they were, whatever
\* its outcome.
C13_ConfigurationReadOnly ==
  [][Ran' =>
       /\ v'.provider = v.provider
       /\ v'.consumer = v.consumer
       /\ v'.pactUri = v.pactUri
       /\ v'.pactUriConfig = v.pactUriConfig
       /\ v'.stateActions = v.stateActions]_vars

\* A failed call on a verifier with names, a registered state action and no
\* pact URI credentials: nothing of it was reset or filled in.
C13_Witness ==
  /\ last.op = "VerifyState"
  /\ last.run.err = errVerficationFailed
  /\ v.provider # "" /\ v.consumer # ""
  /\ v.stateActions # EmptyMap
  /\ v.pactUriConfig = NilPactUriConfig
  /\ v = fresh.v

\* The slots in one fixed order.
SlotOrder ==
  << <<"ServiceProvider", "">>, <<"HonoursPactWith", "">>, <<"PactUri", "">>,
     <<"ProviderState", "X">>, <<"ProviderState", "Y">> >>

\* The verifier after the calls of issued, made in the order of SlotOrder
\* from slot k on.
RECURSIVE InSlotOrder(_, _, _)
InSlotOrder(self, issued, k) ==
  IF k > Len(SlotOrder) THEN self
  ELSE LET here == {c \in issued : Slot(c) = SlotOrder[k]}
       IN  IF here = {}
             THEN InSlotOrder(self, issued, k + 1)
             ELSE InSlotOrder(Apply(self, CHOOSE c \in here : TRUE), issued, k + 1)

\* C14: in whatever order the calls were issued, the verifier is the one the
\* same calls give in one fixed order, and the verification call that
\* follows does what it does on that one.
C14_AnyOrderSameConfiguration ==
  LET built == NewPactFileVerifier(v.validator.setup, v.validator.teardown,
                                   v.config)
      canonical == InSlotOrder(built, last.issued, 1)
  IN  /\ v = canonical
      /\ last.op = "VerifyState" =>
           /\ DOMAIN last.beh =
                Replayed(canonical, pactSource, last.description, last.state)
           /\ last.run = VerifyState(canonical, pactSource, last.beh, last.verr,
                                     last.description, last.state)

\* All five calls were issued and a verification call went through.
C14_Witness ==
  /\ last.op = "VerifyState"
  /\ Cardinality(last.issued) = 5
  /\ DOMAIN v.stateActions = {"X", "Y"}
  /\ v.stateActions["X"] # v.stateActions["Y"]
  /\ last.run.handed

\* The first failure of a call before selection, and the step it comes
\* from: the name check, CanValidate, Read, PactFile.Validate.
FirstFailure ==
  IF v.consumer = "" THEN [err |-> errEmptyConsumer, step |-> "names"]
  ELSE IF v.provider = "" THEN [err |-> errEmptyProvider, step |-> "names"]
  ELSE IF v.validator.url = nil THEN [err |-> errCanValidate, step |-> "canValidate"]
  ELSE IF pactSource.readErr # nil
    THEN [err |-> pactSource.readErr, step |-> "read"]
  ELSE IF pactSource.validateErr # nil
    THEN [err |-> pactSource.validateErr, step |-> "validateFile"]
  ELSE [err |-> nil, step |-> "none"]

\* C15: when the name check, CanValidate, Read or the document's Validate
\* fails, the call returns that very error, the failing step is the last
\* thing it did, and nothing is handed to the validator.
C15_ErrorsVerbatim ==
  (Ran /\ FirstFailure.err # nil) =>
    /\ last.run.err = FirstFailure.err
    /\ ~last.run.handed
    /\ IF FirstFailure.step = "names"
         THEN last.run.trace = <<>>
         ELSE /\ last.run.trace # <<>>
              /\ last.run.trace[Len(last.run.trace)].ev = FirstFailure.step

\* A call on a pact that does not parse returned MalformedDocument.
C15_Witness ==
  /\ Ran
  /\ FirstFailure.step = "read"
  /\ pactSource.readErr = MalformedDocument
  /\ last.run.err = MalformedDocument

\* The keys of expected that actual lacks or holds with another value.
Unmet(expected, actual) ==
  {key \in DOMAIN expected : key \notin DOMAIN actual \/ actual[key] # expected[key]}

\* The keys the mismatches of one part of the response name.
Flagged(mismatches, path) ==
  {mismatches[k].key : k \in {j \in 1..Len(mismatches) : mismatches[j].path = path}}

\* C16: match reports a mismatch for exactly the expected headers and the
\* expected body keys that the actual response lacks or holds with another
\* value, so none for headers and keys of the actual response alone, each
\* once; an expected response matched against itself gives no mismatch.
C16_MatchTolerantAndReflexive ==
  last.op = "matched" =>
    /\ Flagged(last.mismatches, "headers") = Unmet(last.expected.headers, last.actual.headers)
    /\ Flagged(last.mismatches, "body") = Unmet(last.expected.body, last.actual.body)
    /\ Len(last.mismatches) =
         Cardinality(Unmet(last.expected.headers, last.actual.headers))
         + Cardinality(Unmet(last.expected.body, last.actual.body))
         + (IF last.expected.status = last.actual.status THEN 0 ELSE 1)
    /\ last.expected = last.actual => last.mismatches = <<>>

\* An actual response with a header and a body key the expected one does
\* not have, and no mismatch.
C16_Witness ==
  /\ last.op = "matched"
  /\ DOMAIN last.expected.headers = {"h1"}
  /\ DOMAIN last.actual.headers = {"h1", "h2"}
  /\ DOMAIN last.expected.body = {"k1"}
  /\ DOMAIN last.actual.body = {"k1", "k2"}
  /\ last.mismatches = <<>>

\* An expected header that is missing and an expected body key that differs
\* are both reported.
C16_WitnessMismatches ==
  /\ last.op = "matched"
  /\ "h1" \in DOMAIN last.expected.headers /\ "h1" \notin DOMAIN last.actual.headers
  /\ "k1" \in DOMAIN last.expected.body /\ "k1" \in DOMAIN last.actual.body
  /\ last.expected.body["k1"] # last.actual.body["k1"]
  /\ Len(last.mismatches) >= 2

\* The reader the URI shape asks for.
ReaderByShape ==
  IF v.pactUri \in WebUris
    THEN [kind |-> "web", uri |-> v.pactUri,
          Username |-> v.pactUriConfig.Username,
          Password |-> v.pactUriConfig.Password]
    ELSE [kind |-> "file", uri |-> v.pactUri, Username |-> "", Password |-> ""]

Position(trace, e) == {k \in 1..Len(trace) : trace[k].ev = e}

\* One read, by the reader the URI shape asks for; the document validation
\* once after a read that succeeded and not at all after one that failed,
\* and before any filtering: its error wins over that of the filters, and
\* every step of the loop comes after it.
OneFetch(run) ==
  /\ Cardinality(Position(run.trace, "read")) = 1
  /\ \A k \in Position(run.trace, "read") : run.trace[k].reader = ReaderByShape
  /\ IF pactSource.readErr # nil
       THEN Position(run.trace, "validateFile") = {}
       ELSE /\ Cardinality(Position(run.trace, "validateFile")) = 1
            /\ \A r \in Position(run.trace, "read"),
                  f \in Position(run.trace, "validateFile") :
                 /\ f = r + 1
                 /\ \A k \in 1..Len(run.trace) :
                      run.trace[k].ev \in LoopEvents => k > f
            /\ pactSource.validateErr # nil => run.err = pactSource.validateErr

\* C17 as stated: every verification call makes exactly one fetch attempt,
\* by the reader the URI shape asks for.
C17_OneFetchEveryRun == Ran => OneFetch(last.run)

\* C17, amended: every verification call that passes the name checks and
\* CanValidate makes exactly one fetch attempt, by the reader the URI shape
\* asks for, with the document validation after a successful read and before
\* any filtering; a call that fails those checks makes no fetch attempt.
C17_OneFetchOnceUsable ==
  Ran =>
    IF Usable
      THEN OneFetch(last.run)
      ELSE /\ Position(last.run.trace, "read") = {}
           /\ Position(last.run.trace, "validateFile") = {}

\* A call on a web URI with credentials whose one read failed.
C17_Witness ==
  /\ Ran /\ Usable
  /\ v.pactUri \in WebUris
  /\ v.pactUriConfig = CustomPactUriConfig
  /\ pactSource.readErr = SourceUnavailable
  /\ Len(last.run.trace) = 2
  /\ last.run.trace[2].reader.kind = "web"
  /\ last.run.trace[2].reader.Username = "u"

\* C18: the consumer name is checked before the provider name, and both
\* before CanValidate: with both names empty the call returns
\* errEmptyConsumer, errEmptyProvider is returned only with a consumer name,
\* and CanValidate is not called while a name is empty.
C18_PreconditionPriority ==
  Ran =>
    /\ v.consumer = "" => last.run.err = errEmptyConsumer
    /\ (v.consumer # "" /\ v.provider = "") => last.run.err = errEmptyProvider
    /\ last.run.err = errEmptyProvider => v.consumer # ""
    /\ ~NamesSet => Position(last.run.trace, "canValidate") = {}
    /\ last.run.err = errCanValidate => NamesSet

\* A call with both names empty and no request target: of the three
\* failures the consumer's is returned.
C18_Witness ==
  /\ Ran
  /\ v.consumer = "" /\ v.provider = "" /\ v.validator.url = nil
  /\ last.run.err = errEmptyConsumer

\* C19: the pact URI credentials are non-nil whenever the pact URI is
\* non-empty, so a call that picks the remote reader never reads through a
\* nil pactUriConfig; a verifier on which PactUri was not called has an empty
\* URI and reads with the local reader.
C19_CredentialsWithUri ==
  /\ v.pactUri # "" => v.pactUriConfig.ptr # nil
  /\ v.pactUriConfig.ptr = nil => (v.pactUri = "" /\ ~IsWebUri(v.pactUri))
  /\ Ran =>
       /\ last.run.err # "panic"
       /\ \A k \in Position(last.run.trace, "read") :
            /\ last.run.trace[k].reader.kind \in {"web", "file"}
            /\ last.run.trace[k].reader.kind = "web" <=> v.pactUri \in WebUris
            /\ v.pactUriConfig.ptr = nil => last.run.trace[k].reader.kind = "file"
       /\ (Usable /\ v.pactUri \in WebUris) =>
            Position(last.run.trace, "read") # {}

\* A call that read a web URI set by PactUri with a nil config: the reader
\* got the default credentials.
C19_Witness ==
  /\ Ran /\ Usable
  /\ v.pactUri \in WebUris
  /\ v.pactUriConfig = DefaultPactUriConfig
  /\ \E k \in Position(last.run.trace, "read") :
       /\ last.run.trace[k].reader.kind = "web"
       /\ last.run.trace[k].reader.Username = DefaultPactUriConfig.Username

\* A call on a verifier PactUri was never called on read with the local
\* reader.
C19_WitnessNoPactUri ==
  /\ Ran /\ Usable
  /\ v.pactUriConfig.ptr = nil
  /\ v.pactUri = ""
  /\ last.run.trace[2].reader.kind = "file"

====
